---- MODULE Spec2Model ----
(***************************************************************************)
(* A model of DynamoDBHelper (src/main.py): one helper instance talking to *)
(* the DynamoDB service through the low-level client that                  *)
(* boto3.client('dynamodb') returns (src/main.py:27).                      *)
(*                                                                         *)
(* The state is the remote service's tables, the helper instance's own     *)
(* fields, and a record of the most recent helper call (what it passed to  *)
(* the SDK, what the SDK call raised, what the helper returned or raised   *)
(* and what it printed).  Every helper method is one synchronous round     *)
(* trip, so every method is one action.                                    *)
(*                                                                         *)
(* The class is taken as loaded.  The annotation List[Tuple[str, str]]     *)
(* (src/main.py:192) names Tuple, which line 3 does not import: an         *)
(* interpreter that evaluates annotations when the def statement runs      *)
(* raises NameError there and defines no class at all, which leaves the    *)
(* model in its initial state.  The example block (src/main.py:220-259)    *)
(* supplies the input values and is otherwise not modelled.                *)
(***************************************************************************)
EXTENDS Integers, FiniteSets, Sequences, TLC

VARIABLES tables, self, call

vars == <<tables, self, call>>

(***************************************************************************)
(* Bounds and input sets.                                                  *)
(***************************************************************************)
\* Primary-key values range over "1" .. "MaxKey" (written 1 .. MaxKey).
MaxKey == 1

KeyIds == 1 .. MaxKey

\* The service lets the account hold MaxTables tables.
MaxTables == 1

TableNames == {"MyTable", "Other"}

PrimaryKeys == {"ID"}

\* 'S' is the default (src/main.py:10); "X" is no DynamoDB scalar type.
PrimaryKeyTypes == {"S", "X"}

DefaultCapacity == 5

Capacities == {DefaultCapacity}

NameValues == {"Example", "UpdatedValue"}

(***************************************************************************)
(* Python values.  A DynamoDB attribute value is a one-entry dict          *)
(* {'S': '1'}: [T |-> "S", V |-> 1].  A plain Python scalar such as '1'    *)
(* is [T |-> "str", V |-> 1].                                              *)
(***************************************************************************)
AttributeValue(t, v) == [T |-> t, V |-> v]

PyStr(v) == [T |-> "str", V |-> v]

IsAttributeValue(x) == x.T \in {"S", "N", "B"}

\* The key_value arguments tried: the documented form (Union[str, int],
\* as in get_item('1')), the attribute value {'S': '1'}, and one attribute
\* value of another type.
KeyValues ==
    {PyStr(k) : k \in KeyIds}
        \cup {AttributeValue("S", k) : k \in KeyIds}
        \cup {AttributeValue("N", 1)}

\* Items as the example writes them: {'ID': {'S': '1'}, 'Name': {'S': ..}}.
Item(k, n) == [ID |-> AttributeValue("S", k), Name |-> AttributeValue("S", n)]

\* The items tried: well-formed ones, one without the key attribute and
\* one holding plain strings.
Items ==
    {Item(k, n) : k \in KeyIds, n \in NameValues}
        \cup {[Name |-> AttributeValue("S", "Example")]}
        \cup {[ID |-> PyStr(1), Name |-> PyStr("Example")]}

None == [kind |-> "None"]

NoInstance == [table_name |-> "<none>"]

(***************************************************************************)
(* Exceptions.                                                             *)
(***************************************************************************)
NoExc == [class |-> "none", code |-> ""]

ClientError(code) == [class |-> "ClientError", code |-> code]

\* botocore.exceptions.ParamValidationError and EndpointConnectionError
\* derive from BotoCoreError, not from ClientError.
ParamValidationError == [class |-> "ParamValidationError", code |-> ""]

EndpointConnectionError == [class |-> "EndpointConnectionError", code |-> ""]

AttributeError == [class |-> "AttributeError", code |-> ""]

\* What the environment does to one SDK call.
Faults == {"none", "Throttle", "Connection"}

(***************************************************************************)
(* The remote service.  A table is absent, or has a status, a hash-key     *)
(* schema, a set of items (one per key value) and a set of index names.    *)
(***************************************************************************)
NoTable == [status |-> "NONE"]

NewTable(keyName, keyType) ==
    [status |-> "CREATING", keyName |-> keyName, keyType |-> keyType,
     items |-> {}, gsi |-> {}]

Exists(tbls, name) == name \in DOMAIN tbls /\ tbls[name].status # "NONE"

Active(tbls, name) == name \in DOMAIN tbls /\ tbls[name].status = "ACTIVE"

\* The outcome of one SDK call: what it raised, what it returned, and the
\* service's tables afterwards.
\* remote says what became of the request: "none" (nothing was sent), "ok",
\* "error" (the service answered with a client error) or "unreachable".
Failed(tbls, exc, remote) ==
    [exc |-> exc, resp |-> None, tables |-> tbls, remote |-> remote]

Refused(tbls, code) == Failed(tbls, ClientError(code), "error")

Answered(tbls, resp) ==
    [exc |-> NoExc, resp |-> resp, tables |-> tbls, remote |-> "ok"]

\* Every client method validates its parameters against the service's
\* shapes before it sends anything, then the transport may fail, then the
\* service may refuse the request, and otherwise the service acts.
SdkCall(tbls, paramsValid, fault, served) ==
    IF ~paramsValid THEN Failed(tbls, ParamValidationError, "none")
    ELSE IF fault = "Connection"
        THEN Failed(tbls, EndpointConnectionError, "unreachable")
    ELSE IF fault = "Throttle"
        THEN Refused(tbls, "ProvisionedThroughputExceededException")
    ELSE served

\* A map of attribute name to attribute value: every value must be a dict.
ValidAttributeMap(m) == \A a \in DOMAIN m : IsAttributeValue(m[a])

\* The key the service files an item under.
KeyMatches(t, key) ==
    /\ DOMAIN key = {t.keyName}
    /\ key[t.keyName].T = t.keyType

ItemsAt(t, key) ==
    {i \in t.items : t.keyName \in DOMAIN i /\ i[t.keyName] = key[t.keyName]}

Without(t, key) == t.items \ ItemsAt(t, key)

\* client.create_table(TableName=, KeySchema=, AttributeDefinitions=,
\* ProvisionedThroughput=): answers a dict describing the new table.
dynamodb_create_table(tbls, TableName, keyName, keyType, rc, wc, fault) ==
    SdkCall(tbls, rc >= 1 /\ wc >= 1, fault,
        IF keyType \notin {"S", "N", "B"}
            THEN Refused(tbls, "ValidationException")
        ELSE IF Exists(tbls, TableName)
            THEN Refused(tbls, "ResourceInUseException")
        ELSE IF Cardinality({n \in DOMAIN tbls : Exists(tbls, n)}) >= MaxTables
            THEN Refused(tbls, "LimitExceededException")
        ELSE Answered([tbls EXCEPT ![TableName] = NewTable(keyName, keyType)],
                      [kind |-> "dict"]))

\* client.put_item(TableName=, Item=): replaces the whole item at its key.
dynamodb_put_item(tbls, TableName, item, fault) ==
    SdkCall(tbls, ValidAttributeMap(item), fault,
        IF ~Active(tbls, TableName)
            THEN Refused(tbls, "ResourceNotFoundException")
        ELSE LET t == tbls[TableName] IN
            IF ~(t.keyName \in DOMAIN item /\ item[t.keyName].T = t.keyType)
                THEN Refused(tbls, "ValidationException")
            ELSE LET key == [a \in {t.keyName} |-> item[a]] IN
                Answered([tbls EXCEPT ![TableName].items =
                              Without(t, key) \cup {item}],
                         [kind |-> "dict"]))

\* client.get_item(TableName=, Key=): the response has an 'Item' entry
\* only when an item is found.
dynamodb_get_item(tbls, TableName, key, fault) ==
    SdkCall(tbls, ValidAttributeMap(key), fault,
        IF ~Active(tbls, TableName)
            THEN Refused(tbls, "ResourceNotFoundException")
        ELSE LET t == tbls[TableName] IN
            IF ~KeyMatches(t, key)
                THEN Refused(tbls, "ValidationException")
            ELSE Answered(tbls,
                     IF ItemsAt(t, key) = {} THEN [kind |-> "dict"]
                     ELSE [kind |-> "dict",
                           Item |-> CHOOSE i \in ItemsAt(t, key) : TRUE]))

\* client.delete_item(TableName=, Key=): succeeds whether or not the item
\* was there.
dynamodb_delete_item(tbls, TableName, key, fault) ==
    SdkCall(tbls, ValidAttributeMap(key), fault,
        IF ~Active(tbls, TableName)
            THEN Refused(tbls, "ResourceNotFoundException")
        ELSE LET t == tbls[TableName] IN
            IF ~KeyMatches(t, key)
                THEN Refused(tbls, "ValidationException")
            ELSE Answered([tbls EXCEPT ![TableName].items = Without(t, key)],
                          [kind |-> "dict"]))

\* The update expression tried (src/main.py:236 without its name
\* placeholder), as the service parses it: the attribute it sets and the
\* value placeholders it uses.
UpdateExpressions == {"SET Name = :v"}

ParseUpdate(expr) ==
    CASE expr = "SET Name = :v" -> [attr |-> "Name", uses |-> {":v"}]

\* The ExpressionAttributeValues maps tried: an attribute value, and a
\* plain string as the example passes (src/main.py:238).
ExpressionAttributeValues ==
    {(":v" :> AttributeValue("S", "UpdatedValue")),
     (":v" :> PyStr("UpdatedValue"))}

\* client.update_item(TableName=, Key=, UpdateExpression=,
\* ExpressionAttributeValues=, ReturnValues="UPDATED_NEW"): sets the
\* attribute of the item at the key, creating the item when it is not
\* there; the response's 'Attributes' holds the attributes the update
\* set, as they are afterwards.
dynamodb_update_item(tbls, TableName, key, expr, values, fault) ==
    SdkCall(tbls, ValidAttributeMap(key) /\ ValidAttributeMap(values), fault,
        IF ~Active(tbls, TableName)
            THEN Refused(tbls, "ResourceNotFoundException")
        ELSE LET t == tbls[TableName]
                 u == ParseUpdate(expr) IN
            IF \/ ~KeyMatches(t, key)
               \/ u.attr = t.keyName
               \/ DOMAIN values # u.uses
                THEN Refused(tbls, "ValidationException")
            ELSE LET old == IF ItemsAt(t, key) = {} THEN key
                            ELSE CHOOSE i \in ItemsAt(t, key) : TRUE
                     new == (u.attr :> values[":v"]) @@ old IN
                Answered([tbls EXCEPT ![TableName].items =
                              Without(t, key) \cup {new}],
                         [kind |-> "dict",
                          Attributes |-> (u.attr :> new[u.attr])]))

\* client.scan(TableName=): one page of the table.  A page holds up to
\* 1 MB of items; every table within the bounds here fits in one page.
dynamodb_scan(tbls, TableName, fault) ==
    SdkCall(tbls, TRUE, fault,
        IF ~Active(tbls, TableName)
            THEN Refused(tbls, "ResourceNotFoundException")
        ELSE Answered(tbls, [kind |-> "dict",
                             Items |-> [kind |-> "list",
                                        items |-> tbls[TableName].items]]))

\* client.query(TableName=, KeyConditionExpression="<attr> = :value",
\* ExpressionAttributeValues={":value": v}).
dynamodb_query(tbls, TableName, attr, values, fault) ==
    SdkCall(tbls, ValidAttributeMap(values), fault,
        IF ~Active(tbls, TableName)
            THEN Refused(tbls, "ResourceNotFoundException")
        ELSE LET t == tbls[TableName]
                 key == [a \in {attr} |-> values[":value"]] IN
            IF ~KeyMatches(t, key)
                THEN Refused(tbls, "ValidationException")
            ELSE Answered(tbls, [kind |-> "dict",
                                 Items |-> [kind |-> "list",
                                            items |-> ItemsAt(t, key)]]))

\* The index definitions tried: the example's [('Name', 'S')]
\* (src/main.py:258) and one with two attributes, which asks for two HASH
\* keys.
KeySchemas == {<<<<"Name", "S">>>>, <<<<"Name", "S">>, <<"ID", "S">>>>}

IndexNames == {"MyGSI"}

ProjectionTypes == {"ALL"}

\* client.update_table(TableName=, AttributeDefinitions=,
\* GlobalSecondaryIndexUpdates=[{'Create': ...}]).
dynamodb_update_table(tbls, TableName, index_name, key_schema, fault) ==
    SdkCall(tbls, Len(key_schema) >= 1, fault,
        IF ~Exists(tbls, TableName)
            THEN Refused(tbls, "ResourceNotFoundException")
        ELSE IF ~Active(tbls, TableName)
            THEN Refused(tbls, "ResourceInUseException")
        ELSE IF Len(key_schema) # 1 \/ index_name \in tbls[TableName].gsi
            THEN Refused(tbls, "ValidationException")
        ELSE Answered([tbls EXCEPT ![TableName].gsi = @ \cup {index_name}],
                      [kind |-> "dict"]))

\* Looking up a name the object does not have, after the SDK calls r made
\* so far.  The dict that create_table answers has no wait_until_exists,
\* and the low-level client has no batch_writer: both belong to the
\* resource API's Table.
getattr_missing(r) == [r EXCEPT !.exc = AttributeError]

\* No SDK call made yet.
NotCalled(tbls) ==
    [exc |-> NoExc, resp |-> None, tables |-> tbls, remote |-> "none"]

\* dict.get(name): the entry, or None.
get(resp, name) == IF name \in DOMAIN resp THEN resp[name] ELSE None

(***************************************************************************)
(* The record of one helper call.                                          *)
(*   op, args   the method and its arguments                               *)
(*   request    the TableName passed to the SDK ("<none>": no SDK call)    *)
(*   remote     what became of the request (see Failed)                    *)
(*   exc        what the body of the try statement raised                  *)
(*   outcome    "returned", or "raised" when exc reached the caller        *)
(*   result     the value returned                                         *)
(*   printed    the line printed, as its parts                             *)
(***************************************************************************)
NoCall ==
    [op |-> "<none>", args |-> <<>>, request |-> "<none>",
     remote |-> "none", exc |-> NoExc, outcome |-> "returned",
     result |-> None, printed |-> <<>>]

Returned(op, args, request, r, result, printed) ==
    [op |-> op, args |-> args, request |-> request,
     remote |-> r.remote, exc |-> r.exc, outcome |-> "returned",
     result |-> result, printed |-> printed]

Raised(op, args, request, r) ==
    [op |-> op, args |-> args, request |-> request,
     remote |-> r.remote, exc |-> r.exc, outcome |-> "raised",
     result |-> None, printed |-> <<>>]

\* _handle_error prints one line and returns None.
_handle_error(operation, error) == <<"Error during", operation, error.code>>

(***************************************************************************)
(* Construction.                                                           *)
(***************************************************************************)
\* The try body of _create_table: create_table(...), and on the dict it
\* answers, .wait_until_exists().
create_table_wait_until_exists(slf, fault) ==
    LET c == dynamodb_create_table(tables, slf.table_name, slf.primary_key,
                 slf.primary_key_type, slf.read_capacity, slf.write_capacity,
                 fault)
    IN  IF c.exc = NoExc THEN getattr_missing(c) ELSE c

\* _create_table with "raise" for every client error: the conflict code is
\* not told apart.
_create_table_raises_on_conflict(slf, args, fault) ==
    LET r == create_table_wait_until_exists(slf, fault) IN
        /\ tables' = r.tables
        /\ IF r.exc = NoExc
               THEN /\ call' = Returned("__init__", args, slf.table_name, r,
                                   None, <<>>)
                    /\ self' = slf
           ELSE /\ call' = Raised("__init__", args, slf.table_name, r)
                /\ self' = NoInstance

\* _create_table with the two branches of the except clause merged into
\* the printing one: no client error is raised again.
_create_table_swallows_all(slf, args, fault) ==
    LET r == create_table_wait_until_exists(slf, fault) IN
        /\ tables' = r.tables
        /\ IF r.exc = NoExc
               THEN /\ call' = Returned("__init__", args, slf.table_name, r,
                                   None, <<>>)
                    /\ self' = slf
           ELSE IF r.exc.class = "ClientError"
               THEN /\ call' = Returned("__init__", args, slf.table_name, r,
                                   None,
                                   <<"Table", slf.table_name, "already exists.">>)
                    /\ self' = slf
           ELSE /\ call' = Raised("__init__", args, slf.table_name, r)
                /\ self' = NoInstance

_create_table(slf, args, fault) ==
    LET r == create_table_wait_until_exists(slf, fault) IN
        /\ tables' = r.tables
        /\ IF r.exc = NoExc
               THEN /\ call' = Returned("__init__", args,
                                   slf.table_name, r, None, <<>>)
                    /\ self' = slf
           ELSE IF r.exc.class = "ClientError"
                   /\ r.exc.code = "ResourceInUseException"
               THEN /\ call' = Returned("__init__", args,
                                   slf.table_name, r, None,
                                   <<"Table", slf.table_name, "already exists.">>)
                    /\ self' = slf
           ELSE /\ call' = Raised("__init__", args, slf.table_name, r)
                /\ self' = NoInstance

__init__(table_name, primary_key, primary_key_type, read_capacity, write_capacity, fault) ==
    _create_table(
        [table_name |-> table_name, primary_key |-> primary_key,
         primary_key_type |-> primary_key_type,
         read_capacity |-> read_capacity, write_capacity |-> write_capacity],
        <<table_name, primary_key, primary_key_type, read_capacity,
          write_capacity>>,
        fault)

\* The service finishes creating a table.
TableBecomesActive(name) ==
    /\ Exists(tables, name)
    /\ tables[name].status = "CREATING"
    /\ tables' = [tables EXCEPT ![name].status = "ACTIVE"]
    /\ UNCHANGED <<self, call>>

(***************************************************************************)
(* The operations.                                                         *)
(***************************************************************************)
\* put_item with "except Exception" in place of "except ClientError".
put_item_except_Exception(item, fault) ==
    /\ self # NoInstance
    /\ LET r == dynamodb_put_item(tables, self.table_name, item, fault) IN
        /\ tables' = r.tables
        /\ call' =
            IF r.exc = NoExc
                THEN Returned("put_item", <<item>>, self.table_name, r, None,
                              <<"Item added successfully.">>)
            ELSE Returned("put_item", <<item>>, self.table_name, r, None,
                          _handle_error("put_item", r.exc))
    /\ UNCHANGED self

put_item(item, fault) ==
    /\ self # NoInstance
    /\ LET r == dynamodb_put_item(tables, self.table_name, item, fault) IN
        /\ tables' = r.tables
        /\ call' =
            IF r.exc = NoExc
                THEN Returned("put_item", <<item>>, self.table_name, r,
                              None, <<"Item added successfully.">>)
            ELSE IF r.exc.class = "ClientError"
                THEN Returned("put_item", <<item>>, self.table_name, r,
                              None, _handle_error("put_item", r.exc))
            ELSE Raised("put_item", <<item>>, self.table_name, r)
    /\ UNCHANGED self

get_item(key_value, fault) ==
    /\ self # NoInstance
    /\ LET r == dynamodb_get_item(tables, self.table_name,
                    (self.primary_key :> key_value), fault) IN
        /\ tables' = r.tables
        /\ call' =
            IF r.exc = NoExc
                THEN Returned("get_item", <<key_value>>,
                              self.table_name, r, get(r.resp, "Item"), <<>>)
            ELSE IF r.exc.class = "ClientError"
                THEN Returned("get_item", <<key_value>>,
                              self.table_name, r, None,
                              _handle_error("get_item", r.exc))
            ELSE Raised("get_item", <<key_value>>, self.table_name, r)
    /\ UNCHANGED self

\* update_item whose except clause logs and raises again.
update_item_reraises(key_value, update_expression, expression_attribute_values, fault) ==
    /\ self # NoInstance
    /\ LET args == <<key_value, update_expression,
                     expression_attribute_values>>
           r == dynamodb_update_item(tables, self.table_name,
                    (self.primary_key :> key_value), update_expression,
                    expression_attribute_values, fault) IN
        /\ tables' = r.tables
        /\ call' =
            IF r.exc = NoExc
                THEN Returned("update_item", args, self.table_name, r,
                              get(r.resp, "Attributes"), <<>>)
            ELSE IF r.exc.class = "ClientError"
                THEN [Raised("update_item", args, self.table_name, r)
                         EXCEPT !.printed = _handle_error("update_item", r.exc)]
            ELSE Raised("update_item", args, self.table_name, r)
    /\ UNCHANGED self

update_item(key_value, update_expression, expression_attribute_values, fault) ==
    /\ self # NoInstance
    /\ LET args == <<key_value, update_expression,
                     expression_attribute_values>>
           r == dynamodb_update_item(tables, self.table_name,
                    (self.primary_key :> key_value), update_expression,
                    expression_attribute_values, fault) IN
        /\ tables' = r.tables
        /\ call' =
            IF r.exc = NoExc
                THEN Returned("update_item", args, self.table_name, r,
                              get(r.resp, "Attributes"), <<>>)
            ELSE IF r.exc.class = "ClientError"
                THEN Returned("update_item", args, self.table_name, r,
                              None, _handle_error("update_item", r.exc))
            ELSE Raised("update_item", args, self.table_name, r)
    /\ UNCHANGED self

delete_item(key_value, fault) ==
    /\ self # NoInstance
    /\ LET r == dynamodb_delete_item(tables, self.table_name,
                    (self.primary_key :> key_value), fault) IN
        /\ tables' = r.tables
        /\ call' =
            IF r.exc = NoExc
                THEN Returned("delete_item", <<key_value>>,
                              self.table_name, r, None,
                              <<"Item deleted successfully.">>)
            ELSE IF r.exc.class = "ClientError"
                THEN Returned("delete_item", <<key_value>>,
                              self.table_name, r, None,
                              _handle_error("delete_item", r.exc))
            ELSE Raised("delete_item", <<key_value>>,
                        self.table_name, r)
    /\ UNCHANGED self

\* scan_table reading the module-level table_name (src/main.py:223) in
\* place of self.table_name.
scan_table_global_table_name(fault) ==
    /\ self # NoInstance
    /\ LET r == dynamodb_scan(tables, "MyTable", fault) IN
        /\ tables' = r.tables
        /\ call' =
            IF r.exc = NoExc
                THEN Returned("scan_table", <<>>, "MyTable", r,
                              get(r.resp, "Items"), <<>>)
            ELSE IF r.exc.class = "ClientError"
                THEN Returned("scan_table", <<>>, "MyTable", r,
                              None, _handle_error("scan_table", r.exc))
            ELSE Raised("scan_table", <<>>, "MyTable", r)
    /\ UNCHANGED self

scan_table(fault) ==
    /\ self # NoInstance
    /\ LET r == dynamodb_scan(tables, self.table_name, fault) IN
        /\ tables' = r.tables
        /\ call' =
            IF r.exc = NoExc
                THEN Returned("scan_table", <<>>, self.table_name, r,
                              get(r.resp, "Items"), <<>>)
            ELSE IF r.exc.class = "ClientError"
                THEN Returned("scan_table", <<>>, self.table_name, r,
                              None, _handle_error("scan_table", r.exc))
            ELSE Raised("scan_table", <<>>, self.table_name, r)
    /\ UNCHANGED self

query_table(key_value, fault) ==
    /\ self # NoInstance
    /\ LET r == dynamodb_query(tables, self.table_name, self.primary_key,
                    (":value" :> key_value), fault) IN
        /\ tables' = r.tables
        /\ call' =
            IF r.exc = NoExc
                THEN Returned("query_table", <<key_value>>,
                              self.table_name, r, get(r.resp, "Items"), <<>>)
            ELSE IF r.exc.class = "ClientError"
                THEN Returned("query_table", <<key_value>>,
                              self.table_name, r, None,
                              _handle_error("query_table", r.exc))
            ELSE Raised("query_table", <<key_value>>,
                        self.table_name, r)
    /\ UNCHANGED self

\* The batches tried: none, and one item per key value (the example writes
\* keys '2' and '3', src/main.py:253).
Batches == {<<>>, [k \in KeyIds |-> Item(k, "Example")]}

\* The try body starts with self.dynamodb.batch_writer(): nothing is sent.
batch_write_items(items) ==
    /\ self # NoInstance
    /\ LET r == getattr_missing(NotCalled(tables)) IN
        /\ tables' = r.tables
        /\ call' =
            IF r.exc = NoExc
                THEN Returned("batch_write_items", <<items>>, "<none>", r, None,
                              <<"Items written successfully in batch.">>)
            ELSE IF r.exc.class = "ClientError"
                THEN Returned("batch_write_items", <<items>>, "<none>", r, None,
                              _handle_error("batch_write_items", r.exc))
            ELSE Raised("batch_write_items", <<items>>, "<none>", r)
    /\ UNCHANGED self

create_global_secondary_index(index_name, key_schema, projection_type, fault) ==
    /\ self # NoInstance
    /\ LET args == <<index_name, key_schema, projection_type>>
           r == dynamodb_update_table(tables, self.table_name, index_name,
                    key_schema, fault) IN
        /\ tables' = r.tables
        /\ call' =
            IF r.exc = NoExc
                THEN Returned("create_global_secondary_index", args,
                              self.table_name, r, None,
                              <<"Global secondary index", index_name,
                                "created successfully.">>)
            ELSE IF r.exc.class = "ClientError"
                THEN Returned("create_global_secondary_index", args,
                              self.table_name, r, None,
                              _handle_error("create_global_secondary_index",
                                            r.exc))
            ELSE Raised("create_global_secondary_index", args,
                        self.table_name, r)
    /\ UNCHANGED self

(***************************************************************************)
(* The specification.                                                      *)
(***************************************************************************)
Init ==
    /\ tables = [n \in TableNames |-> NoTable]
    /\ self = NoInstance
    /\ call = NoCall

Next ==
    \/ \E tn \in TableNames, pk \in PrimaryKeys, pkt \in PrimaryKeyTypes,
          rc \in Capacities, wc \in Capacities, f \in Faults :
            __init__(tn, pk, pkt, rc, wc, f)
    \/ \E n \in TableNames : TableBecomesActive(n)
    \/ \E i \in Items, f \in Faults : put_item(i, f)
    \/ \E k \in KeyValues, f \in Faults : get_item(k, f)
    \/ \E k \in KeyValues, e \in UpdateExpressions,
          v \in ExpressionAttributeValues, f \in Faults :
            update_item(k, e, v, f)
    \/ \E k \in KeyValues, f \in Faults : delete_item(k, f)
    \/ \E f \in Faults : scan_table(f)
    \/ \E k \in KeyValues, f \in Faults : query_table(k, f)
    \/ \E b \in Batches : batch_write_items(b)
    \/ \E n \in IndexNames, ks \in KeySchemas, pt \in ProjectionTypes,
          f \in Faults :
            create_global_secondary_index(n, ks, pt, f)

Spec == Init /\ [][Next]_vars

(***************************************************************************)
(* Vocabulary of the properties.                                           *)
(***************************************************************************)
\* The methods other than construction.
Operations ==
    {"put_item", "get_item", "update_item", "delete_item", "scan_table",
     "query_table", "batch_write_items", "create_global_secondary_index"}

\* The items of the instance's table, as the service holds them.
TableItems ==
    IF self # NoInstance /\ Active(tables, self.table_name)
        THEN tables[self.table_name].items
    ELSE {}

\* The key_value arguments that name the key attribute value v: v itself,
\* {'S': '1'}, and the plain scalar inside it, '1'.
NamesKey(key_value, v) == key_value = v \/ key_value = PyStr(v.V)

\* The constructor's arguments, as the instance's fields.
Fields(tn, pk, pkt, rc, wc) ==
    [table_name |-> tn, primary_key |-> pk, primary_key_type |-> pkt,
     read_capacity |-> rc, write_capacity |-> wc]

(***************************************************************************)
(* C1.  An operation other than construction whose remote call fails with  *)
(* a client error, of whatever code and in whatever state, does not raise: *)
(* it prints the error line and returns None.                              *)
(***************************************************************************)
C1_ClientErrorIsLoggedNotRaised ==
    (call.op \in Operations /\ call.exc.class = "ClientError")
        => /\ call.outcome = "returned"
           /\ call.result = None
           /\ call.printed = <<"Error during", call.op, call.exc.code>>

C1_Witness ==
    /\ call.op = "update_item"
    /\ call.exc = ClientError("ValidationException")
    /\ call.outcome = "returned"

(***************************************************************************)
(* C2.  A construction whose create_table is refused with                  *)
(* ResourceInUseException returns normally with the instance built,        *)
(* prints the already-exists line and leaves every table and its items as  *)
(* they were.                                                              *)
(***************************************************************************)
C2_ExistingTableIsNotAnError ==
    [][(/\ call'.op = "__init__"
        /\ call'.exc = ClientError("ResourceInUseException")
        /\ __init__(call'.args[1], call'.args[2], call'.args[3],
                    call'.args[4], call'.args[5], "none"))
           => /\ call'.outcome = "returned"
              /\ self' = Fields(call'.args[1], call'.args[2], call'.args[3],
                                call'.args[4], call'.args[5])
              /\ call'.printed = <<"Table", call'.args[1], "already exists.">>
              /\ tables' = tables]_vars

C2_Witness ==
    /\ call.op = "__init__"
    /\ call.exc = ClientError("ResourceInUseException")
    /\ call.outcome = "returned"
    /\ self # NoInstance
    /\ TableItems # {}

(***************************************************************************)
(* C3.  A construction whose create_table is refused with any client error *)
(* other than ResourceInUseException raises that error: no instance is     *)
(* built.                                                                  *)
(***************************************************************************)
C3_OtherCreationErrorsPropagate ==
    (/\ call.op = "__init__"
     /\ call.exc.class = "ClientError"
     /\ call.exc.code # "ResourceInUseException")
        => /\ call.outcome = "raised"
           /\ self = NoInstance

C3_Witness ==
    /\ call.op = "__init__"
    /\ call.exc = ClientError("ValidationException")
    /\ call.outcome = "raised"

(***************************************************************************)
(* C4.  A construction whose create_table the service accepted returns     *)
(* normally, and only with the table active.                               *)
(***************************************************************************)
C4_AcceptedCreationReturnsOnceActive ==
    (call.op = "__init__" /\ call.remote = "ok")
        => /\ call.outcome = "returned"
           /\ Active(tables, call.request)

(***************************************************************************)
(* C5.  An exception of any class but ClientError raised in a method's try *)
(* body reaches the caller: the method does not return.                    *)
(***************************************************************************)
C5_OtherExceptionsPropagate ==
    (call.exc.class \notin {"none", "ClientError"})
        => /\ call.outcome = "raised"
           /\ call.printed = <<>>

C5_Witness ==
    /\ call.op = "put_item"
    /\ call.exc = EndpointConnectionError
    /\ call.outcome = "raised"

(***************************************************************************)
(* C6.  With no error injected, get_item with the primary-key value of the *)
(* item that the put_item just before it wrote returns that item.          *)
(***************************************************************************)
C6_PutThenGetRoundTrip ==
    [][\A item \in Items, kv \in KeyValues :
        (/\ call.op = "put_item"
         /\ call.args = <<item>>
         /\ call.remote = "ok"
         /\ self.primary_key \in DOMAIN item
         /\ NamesKey(kv, item[self.primary_key])
         /\ get_item(kv, "none"))
            => /\ call'.outcome = "returned"
               /\ call'.result = item]_vars

(***************************************************************************)
(* C7.  With a healthy service, get_item(k) right after delete_item(k)     *)
(* returns None; get_item(k) returns None whenever the table holds no item *)
(* under k; and delete_item(k) leaves the items under other keys as they   *)
(* were.                                                                   *)
(***************************************************************************)
C7_DeleteThenGetIsAbsent ==
    [][\A kv \in KeyValues :
        /\ (/\ call.op = "delete_item"
            /\ call.args = <<kv>>
            /\ call.remote \in {"ok", "none"}
            /\ get_item(kv, "none"))
               => /\ call'.outcome = "returned"
                  /\ call'.result = None
        /\ (/\ get_item(kv, "none")
            /\ \A i \in TableItems : ~NamesKey(kv, i[self.primary_key]))
               => /\ call'.outcome = "returned"
                  /\ call'.result = None
        /\ (\E f \in Faults : delete_item(kv, f))
               => {i \in TableItems' : ~NamesKey(kv, i[self.primary_key])}
                    = {i \in TableItems : ~NamesKey(kv, i[self.primary_key])}]_vars

(***************************************************************************)
(* C8.  With no error injected, batch_write_items(items) on an active      *)
(* table returns with every item of the batch in the table beside the      *)
(* earlier items it did not overwrite; scan_table returns every item of    *)
(* the table, so the scan after the batch returns all of these.            *)
(***************************************************************************)
C8_BatchThenScanReturnsAll ==
    [][\A b \in Batches :
        /\ (batch_write_items(b) /\ Active(tables, self.table_name))
               => /\ call'.outcome = "returned"
                  /\ \A n \in DOMAIN b : b[n] \in TableItems'
                  /\ \A i \in TableItems :
                        (\A n \in DOMAIN b :
                            b[n][self.primary_key] # i[self.primary_key])
                            => i \in TableItems'
        /\ (scan_table("none") /\ Active(tables, self.table_name))
               => /\ call'.outcome = "returned"
                  /\ call'.result = [kind |-> "list", items |-> TableItems]
        /\ (/\ call.op = "batch_write_items"
            /\ call.args = <<b>>
            /\ Active(tables, self.table_name)
            /\ scan_table("none"))
               => /\ call'.outcome = "returned"
                  /\ call'.result # None
                  /\ \A n \in DOMAIN b : b[n] \in call'.result.items]_vars

(***************************************************************************)
(* C9.  On an active table and a healthy service, update_item with the     *)
(* expression "SET Name = :v" returns the attributes the update set (not   *)
(* None); called again right away with the same key, expression and        *)
(* values it returns the same and leaves the table as the first call left  *)
(* it.                                                                     *)
(***************************************************************************)
C9_UpdateTwiceIsIdempotent ==
    [][\A kv \in KeyValues, e \in UpdateExpressions,
          v \in ExpressionAttributeValues :
        /\ (/\ Active(tables, self.table_name)
            /\ kv.T \in {"str", tables[self.table_name].keyType}
            /\ update_item(kv, e, v, "none"))
               => /\ call'.outcome = "returned"
                  /\ call'.result # None
        /\ (/\ call.op = "update_item"
            /\ call.args = <<kv, e, v>>
            /\ call.remote = "ok"
            /\ update_item(kv, e, v, "none"))
               => /\ call'.result = call.result
                  /\ tables' = tables]_vars

(***************************************************************************)
(* C10.  No call but a construction changes the instance's fields, and     *)
(* every SDK request of an operation carries the instance's table_name;    *)
(* a construction that returns leaves the fields equal to its arguments.   *)
(***************************************************************************)
C10_TableIdentityIsFixed ==
    [][/\ call'.op # "__init__" => self' = self
       /\ (call'.op \in Operations /\ call'.request # "<none>")
              => call'.request = self.table_name
       /\ (call'.op = "__init__" /\ self' # NoInstance)
              => /\ self' = Fields(call'.args[1], call'.args[2],
                                   call'.args[3], call'.args[4],
                                   call'.args[5])
                 /\ call'.request = self'.table_name]_vars

C10_Witness ==
    /\ call.op \in Operations
    /\ call.exc.class = "ClientError"
    /\ self # NoInstance
    /\ self.table_name = "Other"
    /\ call.request = "Other"

====
